---- MODULE Spec2Model ----
(***************************************************************************)
(* Model of the reviewer-assignment engine of pr-reviewer-service: the     *)
(* user, pull_request and pr_reviewer tables, and the service operations   *)
(* AddTeam, SetIsActive, CreatePR, MergePR, ReassignReviewer and           *)
(* DeactivateTeam working on them.  Each action is one whole service call  *)
(* executed alone (its transaction begins, runs and commits with no other  *)
(* call in between) in the specification Spec; in the specification SpecTx *)
(* a call that runs in a transaction is a sequence of steps, its BeginTx,  *)
(* its write statements and its end, and two workers interleave them.      *)
(*                                                                         *)
(* User IDs and PR IDs are strings in the program; the model uses the      *)
(* naturals 1..N, standing for N distinct IDs numbered in the order the    *)
(* database sorts them (ORDER BY id).  0 stands for "no ID".               *)
(***************************************************************************)
EXTENDS Integers, Sequences, FiniteSets, TLC

VARIABLES
    users,          \* table "user":        id -> row
    prs,            \* table pull_request:  id -> row
    edges,          \* table pr_reviewer:   set of <<pr_id, reviewer_id>>
    resp,           \* the last service call: which operation, on which PR, what
                    \* it returned, and how many write statements it executed
    everAssigned,   \* history: pr_id -> every user that ever had an edge on it
    calls,          \* number of service calls made so far
    txs             \* worker -> the transaction its call has open, if any

vars == <<users, prs, edges, resp, everAssigned, calls, txs>>

(***************************************************************************)
(* Bounds of the model.                                                    *)
(***************************************************************************)
NumUsers == 5
NumPRs == 2
MaxClock == 3
MaxCalls == 4
TicksPerMicro == 2
MicrosPerSecond == 2

Users == 1..NumUsers
PRIds == 1..NumPRs
TeamNames == {"backend", "frontend"}
Titles == {"Add X"}
\* Instants time.Now() can return, in clock ticks (a tick stands for the
\* clock's resolution, finer than the microsecond the database keeps).
Times == 0..MaxClock
\* The member lists AddTeam requests carry, each a map from the member's user
\* ID to its is_active flag: no member; every user, all active; every user,
\* only the first two active; users 2 and 4, active.
MemberLists ==
    { [u \in {} |-> TRUE],
      [u \in Users |-> TRUE],
      [u \in Users |-> u <= 2],
      [u \in {2, 4} |-> TRUE] }

\* The AddTeam requests: every list for every named team, and one team whose
\* name is the empty string, which the service accepts.
TeamRequests ==
    (TeamNames \X MemberLists) \cup {<<"", [u \in {NumUsers} |-> TRUE]>>}

(***************************************************************************)
(* Program constants.                                                      *)
(***************************************************************************)
PRStatusOpen == "OPEN"
PRStatusMerged == "MERGED"
maxReviewers == 2
NullTime == -1

CodeTeamExists == "TEAM_EXISTS"
CodePRExists == "PR_EXISTS"
CodePRMerged == "PR_MERGED"
CodeNotAssigned == "NOT_ASSIGNED"
CodeNoCandidate == "NO_CANDIDATE"
CodeNotFound == "NOT_FOUND"
CodeBadRequest == "BAD_REQUEST"
OK == "OK"
\* A storage failure (wrapped driver error, no domain code).
InternalError == "INTERNAL"

DomainErrors ==
    {CodeNotFound, CodePRExists, CodePRMerged, CodeNotAssigned, CodeNoCandidate}

(***************************************************************************)
(* Rows.                                                                   *)
(***************************************************************************)
NoUser == [exists |-> FALSE, team |-> "", active |-> FALSE]
User(t, a) == [exists |-> TRUE, team |-> t, active |-> a]

NoPR == [exists |-> FALSE, title |-> "", author |-> 0, status |-> "",
         createdAt |-> NullTime, mergedAt |-> NullTime]
PullRequest(title, author, status, createdAt, mergedAt) ==
    [exists |-> TRUE, title |-> title, author |-> author, status |-> status,
     createdAt |-> createdAt, mergedAt |-> mergedAt]

\* The user a SetIsActive response carries.
NoUserDTO == [id |-> 0, team |-> "", active |-> FALSE]

NoResp ==
    [op |-> "", pr |-> 0, err |-> OK, status |-> "", reviewers |-> <<>>,
     replacedBy |-> 0,
     mergedAt |-> NullTime, deactivated |-> 0, removed |-> 0,
     userIDs |-> <<>>, user |-> NoUserDTO, writes |-> 0]

(***************************************************************************)
(* Helpers.                                                                *)
(***************************************************************************)
Range(s) == {s[i] : i \in 1..Len(s)}

Min(a, b) == IF a < b THEN a ELSE b

\* ORDER BY id / ORDER BY reviewer_id: the IDs of S in ascending order.
RECURSIVE OrderByID(_)
OrderByID(S) ==
    IF S = {} THEN <<>>
    ELSE LET m == CHOOSE x \in S : \A y \in S : x <= y
         IN  <<m>> \o OrderByID(S \ {m})

\* time.Time.Format(time.RFC3339): the instant cut to whole seconds.
FormatRFC3339(t) == t \div (TicksPerMicro * MicrosPerSecond)

\* StoreTimestamp rounding to the next microsecond instead of cutting.
StoreTimestampRoundedUp(t) ==
    ((t + TicksPerMicro - 1) \div TicksPerMicro) * TicksPerMicro

\* A timestamptz column keeps microseconds: the instant cut to microseconds.
StoreTimestamp(t) == (t \div TicksPerMicro) * TicksPerMicro

(***************************************************************************)
(* Storage gateway: the queries of the repositories, over the tables.      *)
(***************************************************************************)
\* Exists answering false for every id.
ExistsNever(prID) == FALSE

\* PullRequestRepository.Exists
Exists(prID) == prs[prID].exists

\* PullRequestRepository.FindByID / UserRepository.FindByID: the row, whose
\* exists field is FALSE where the code gets nil.
FindByID(prID) == prs[prID]
UserFindByID(userID) == users[userID]

\* FindActiveCandidatesForReassignment without the is_active condition.
FindCandidatesOfAnyStatus(teamName, excludeUserIDs) ==
    OrderByID({u \in Users : /\ users[u].exists
                             /\ users[u].team = teamName
                             /\ u \notin Range(excludeUserIDs)})

\* UserRepository.FindActiveCandidatesForReassignment:
\* WHERE team_name = $1 AND is_active = true AND id != ALL($2) ORDER BY id
FindActiveCandidatesForReassignment(teamName, excludeUserIDs) ==
    OrderByID({u \in Users : /\ users[u].exists
                             /\ users[u].team = teamName
                             /\ users[u].active
                             /\ u \notin Range(excludeUserIDs)})

\* UserRepository.FindByTeamName: WHERE team_name = $1 ORDER BY id
FindByTeamName(teamName) ==
    OrderByID({u \in Users : users[u].exists /\ users[u].team = teamName})

\* TeamRepository.IsExists: EXISTS(SELECT 1 FROM "user" WHERE team_name = $1)
IsExists(teamName) ==
    \E u \in Users : users[u].exists /\ users[u].team = teamName

\* GetTeamByName without the WHERE clause: the users of every team.
GetTeamOfAnyName(teamName) == {u \in Users : users[u].exists}

\* TeamRepository.GetTeamByName: the members, nil (here the empty set) if none
GetTeamByName(teamName) ==
    {u \in Users : users[u].exists /\ users[u].team = teamName}

\* GetReviewers without its WHERE clause: the reviewers of every PR.
GetReviewersOfEveryPR(E, prID) ==
    OrderByID({r \in Users : \E p \in PRIds : <<p, r>> \in E})

\* ReviewerRepository.GetReviewers, over the edge set E:
\* SELECT reviewer_id WHERE pr_id = $1 ORDER BY reviewer_id
GetReviewers(E, prID) == OrderByID({r \in Users : <<prID, r>> \in E})

\* ReviewerRepository.IsAssigned
IsAssigned(prID, reviewerID) == <<prID, reviewerID>> \in edges

\* AssignReviewer inserting the reviewer for every PR id.
AssignReviewerToEveryPR(E, prID, reviewerID) ==
    E \cup {<<p, reviewerID>> : p \in PRIds}

\* ReviewerRepository.AssignReviewer: INSERT ... ON CONFLICT DO NOTHING
AssignReviewer(E, prID, reviewerID) == E \cup {<<prID, reviewerID>>}

\* ReplaceReviewer without its DELETE statement.
ReplaceWithoutDelete(E, prID, oldReviewerID, newReviewerID) ==
    E \cup {<<prID, newReviewerID>>}

\* ReviewerRepository.ReplaceReviewer: DELETE the old edge, then a plain INSERT
\* of the new one, which fails on the primary key if the edge is there already.
ReplaceReviewer(E, prID, oldReviewerID, newReviewerID) ==
    (E \ {<<prID, oldReviewerID>>}) \cup {<<prID, newReviewerID>>}

ReplaceConflict(E, prID, oldReviewerID, newReviewerID) ==
    <<prID, newReviewerID>> \in (E \ {<<prID, oldReviewerID>>})

\* ReviewerRepository.RemoveReviewer: delete one edge.
RemoveReviewer(E, prID, reviewerID) == E \ {<<prID, reviewerID>>}

\* FindOpenPRsByReviewers without the test of the status.
FindPRsByReviewers(E, reviewerIDs) ==
    OrderByID({p \in PRIds : /\ prs[p].exists
                             /\ \E r \in Range(reviewerIDs) : <<p, r>> \in E})

\* PullRequestRepository.FindOpenPRsByReviewers, over the edge set E:
\* the OPEN PRs with an edge to one of reviewerIDs.  The order of the result
\* (created_at DESC) does not show in what DeactivateTeam does with it.
FindOpenPRsByReviewers(E, reviewerIDs) ==
    OrderByID({p \in PRIds : /\ prs[p].exists
                             /\ prs[p].status = PRStatusOpen
                             /\ \E r \in Range(reviewerIDs) : <<p, r>> \in E})

\* UserRepository.DeactivateTeamUsers:
\* UPDATE "user" SET is_active = false WHERE team_name = $1 AND is_active
\* First the same UPDATE without the test of is_active.
EveryTeamRow(teamName) ==
    {u \in Users : users[u].exists /\ users[u].team = teamName}

\* The rows the UPDATE of DeactivateTeamUsers affects.
DeactivatedRows(teamName) ==
    {u \in Users : users[u].exists /\ users[u].team = teamName /\ users[u].active}

DeactivateTeamUsers(teamName) ==
    [u \in Users |-> IF u \in DeactivatedRows(teamName)
                     THEN [users[u] EXCEPT !.active = FALSE]
                     ELSE users[u]]

\* The history of a PR's reviewers after a call that leaves the edges E.
Track(E) ==
    [p \in PRIds |-> everAssigned[p] \cup {r \in Users : <<p, r>> \in E}]

\* CreatePR, line 142: the instant of the call, which Create stores as
\* created_at.  Calls are numbered in the order of time, and the instant of a
\* call is its number.  (updated_at, which Create and UpdateStatus write, is
\* read by nothing the service returns and is left out of the row.)
Now == calls

\* Create with the status left at the zero value of the field.
CreateWithoutStatus(prID, title, authorID) ==
    [prs EXCEPT ![prID] = PullRequest(title, authorID, "", Now, NullTime)]

\* PullRequestRepository.Create: INSERT INTO pull_request, status OPEN,
\* merged_at left NULL.
Create(prID, title, authorID) ==
    [prs EXCEPT ![prID] =
        PullRequest(title, authorID, PRStatusOpen, Now, NullTime)]

\* The INSERT fails on the primary key if the id is there already.
CreateConflict(prID) == prs[prID].exists

\* UpdateStatus with created_at in its SET list as well.
UpdateStatusAndCreatedAt(prID, status, mergedAt) ==
    [prs EXCEPT ![prID] =
        IF prs[prID].exists
        THEN [prs[prID] EXCEPT !.status = status,
                               !.createdAt = Now,
                               !.mergedAt = StoreTimestamp(mergedAt)]
        ELSE prs[prID]]

\* PullRequestRepository.UpdateStatus:
\* UPDATE pull_request SET status = $2, merged_at = $3 WHERE id = $1
UpdateStatus(prID, status, mergedAt) ==
    [prs EXCEPT ![prID] =
        IF prs[prID].exists
        THEN [prs[prID] EXCEPT !.status = status,
                               !.mergedAt = StoreTimestamp(mergedAt)]
        ELSE prs[prID]]

\* SetIsActive without its WHERE clause: every row is updated.
UserSetEveryIsActive(userID, isActive) ==
    [u \in Users |-> IF users[u].exists
                     THEN [users[u] EXCEPT !.active = isActive]
                     ELSE users[u]]

\* UserRepository.SetIsActive: UPDATE "user" SET is_active = $2 WHERE id = $1
UserSetIsActive(userID, isActive) ==
    [users EXCEPT ![userID] =
        IF users[userID].exists
        THEN [users[userID] EXCEPT !.active = isActive]
        ELSE users[userID]]

\* TeamRepository.CreateOrUpdateTeam: upsert every member with the team's name.
CreateOrUpdateTeam(teamName, members) ==
    [u \in Users |-> IF u \in DOMAIN members
                     THEN User(teamName, members[u])
                     ELSE users[u]]

\* One more service call, while the run's budget of calls lasts.
Call == calls < MaxCalls /\ calls' = calls + 1

(***************************************************************************)
(* Unit of work.  A transaction body is modelled by what it leaves when it *)
(* returns: its error, the tables as it wrote them, the fields of the      *)
(* response, and the number of write statements it executed.               *)
(***************************************************************************)
TxResult ==
    [err |-> OK, users |-> users, prs |-> prs, edges |-> edges,
     status |-> "", reviewers |-> <<>>, replacedBy |-> 0,
     mergedAt |-> NullTime, deactivated |-> 0, removed |-> 0,
     userIDs |-> <<>>, user |-> NoUserDTO, writes |-> 0]

\* The body returns a domain error having written nothing.
Fail(code) == [TxResult EXCEPT !.err = code]

\* The workers: one per inbound call, two of them at a time.
Workers == {"w1", "w2"}

\* A worker with no transaction open.
NoTx ==
    [pc |-> "idle", op |-> "", pr |-> 0, arg |-> 0, parent |-> "",
     snap |-> <<>>, res |-> <<>>, todo |-> <<>>, locks |-> {}, wrote |-> {},
     done |-> 0]

\* UnitOfWork.WithinTransaction: commit when the body returns nil, roll back
\* when it returns an error.
WithinTransaction(tx) ==
    /\ users' = IF tx.err = OK THEN tx.users ELSE users
    /\ prs' = IF tx.err = OK THEN tx.prs ELSE prs
    /\ edges' = IF tx.err = OK THEN tx.edges ELSE edges
    /\ everAssigned' = Track(IF tx.err = OK THEN tx.edges ELSE edges)
    /\ UNCHANGED txs

\* What the service returns: the response on success, only the error
\* otherwise.
Respond(op, prID, tx) ==
    IF tx.err = OK
    THEN [op |-> op, pr |-> prID, err |-> OK, status |-> tx.status,
          reviewers |-> tx.reviewers, replacedBy |-> tx.replacedBy,
          mergedAt |-> tx.mergedAt, deactivated |-> tx.deactivated,
          removed |-> tx.removed, userIDs |-> tx.userIDs,
          user |-> tx.user, writes |-> tx.writes]
    ELSE [NoResp EXCEPT !.op = op, !.pr = prID, !.err = tx.err,
                        !.writes = tx.writes]

(***************************************************************************)
(* PullRequestService.                                                     *)
(***************************************************************************)
\* SelectReviewers without the cut to maxReviewers: every candidate.
SelectEveryCandidate(candidates) == candidates

\* CreatePR, lines 125-140: the first min(maxReviewers, len(candidates)) IDs.
SelectReviewers(candidates) ==
    SubSeq(candidates, 1, Min(maxReviewers, Len(candidates)))

\* CreatePR, lines 158-166: one AssignReviewer per selected reviewer.
RECURSIVE AssignReviewers(_, _, _)
AssignReviewers(E, prID, reviewerIDs) ==
    IF reviewerIDs = <<>> THEN E
    ELSE AssignReviewers(AssignReviewer(E, prID, Head(reviewerIDs)),
                         prID, Tail(reviewerIDs))

\* CreatePrecheck without the test of the author's is_active flag.
CreatePrecheckAnyStatus(prID, authorID) ==
    LET author == UserFindByID(authorID)
    IN  IF Exists(prID) THEN CodePRExists
        ELSE IF ~author.exists THEN CodeNotFound
        ELSE IF author.team = "" THEN CodeNotFound
        ELSE OK

\* CreatePR, lines 79-113: the checks before the selection.
CreatePrecheck(prID, authorID) ==
    LET author == UserFindByID(authorID)
    IN  IF Exists(prID) THEN CodePRExists
        ELSE IF ~author.exists THEN CodeNotFound
        ELSE IF ~author.active THEN CodeNotFound
        ELSE IF author.team = "" THEN CodeNotFound
        ELSE OK

\* CreatePR, lines 78-177: the transaction body.
CreatePRTx(prID, title, authorID) ==
    LET author == UserFindByID(authorID)
        candidates ==
            FindActiveCandidatesForReassignment(author.team, <<authorID>>)
        reviewerIDs == SelectReviewers(candidates)
        check == CreatePrecheck(prID, authorID)
    IN  IF check # OK THEN Fail(check)
        ELSE IF CreateConflict(prID) THEN Fail(InternalError)
        ELSE [TxResult EXCEPT
                !.prs = Create(prID, title, authorID),
                !.edges = AssignReviewers(edges, prID, reviewerIDs),
                !.status = PRStatusOpen,
                !.reviewers = reviewerIDs,
                !.writes = 1 + Len(reviewerIDs)]

CreatePR(prID, title, authorID) ==
    LET tx == CreatePRTx(prID, title, authorID)
    IN  /\ Call
        /\ WithinTransaction(tx)
        /\ resp' = Respond("CreatePR", prID, tx)

\* MergePRTx writing merged_at while it leaves the status OPEN.
MergePRTxKeepingOpen(prID, mergedAt) ==
    LET pr == FindByID(prID)
        reviewers == GetReviewers(edges, prID)
    IN  IF ~pr.exists THEN Fail(CodeNotFound)
        ELSE IF pr.status = PRStatusMerged
        THEN [TxResult EXCEPT !.status = pr.status,
                              !.reviewers = reviewers,
                              !.mergedAt = FormatRFC3339(pr.mergedAt)]
        ELSE [TxResult EXCEPT
                !.prs = UpdateStatus(prID, PRStatusOpen, mergedAt),
                !.status = PRStatusMerged,
                !.reviewers = reviewers,
                !.mergedAt = FormatRFC3339(mergedAt),
                !.writes = 1]

\* MergePR, lines 193-248: the transaction body; mergedAt is time.Now().
\* UpdateStatus runs on the pool, not on the transaction's connection; for a
\* call executed alone that makes no difference to what is stored.
MergePRTx(prID, mergedAt) ==
    LET pr == FindByID(prID)
        reviewers == GetReviewers(edges, prID)
    IN  IF ~pr.exists THEN Fail(CodeNotFound)
        ELSE IF pr.status = PRStatusMerged
        THEN [TxResult EXCEPT !.status = pr.status,
                              !.reviewers = reviewers,
                              !.mergedAt = FormatRFC3339(pr.mergedAt)]
        ELSE [TxResult EXCEPT
                !.prs = UpdateStatus(prID, PRStatusMerged, mergedAt),
                !.status = PRStatusMerged,
                !.reviewers = reviewers,
                !.mergedAt = FormatRFC3339(mergedAt),
                !.writes = 1]

MergePR(prID) ==
    \E mergedAt \in Times :
        LET tx == MergePRTx(prID, mergedAt)
        IN  /\ Call
            /\ WithinTransaction(tx)
            /\ resp' = Respond("MergePR", prID, tx)

\* ReassignPrecheck with the assignment looked up before the status.
ReassignPrecheckAssignedFirst(prID, oldReviewerID) ==
    LET pr == FindByID(prID)
        oldReviewer == UserFindByID(oldReviewerID)
    IN  IF ~pr.exists THEN CodeNotFound
        ELSE IF ~IsAssigned(prID, oldReviewerID) THEN CodeNotAssigned
        ELSE IF pr.status = PRStatusMerged THEN CodePRMerged
        ELSE IF ~oldReviewer.exists THEN CodeNotFound
        ELSE OK

\* ReassignReviewer, lines 265-308: the checks before the candidate search.
ReassignPrecheck(prID, oldReviewerID) ==
    LET pr == FindByID(prID)
        oldReviewer == UserFindByID(oldReviewerID)
    IN  IF ~pr.exists THEN CodeNotFound
        ELSE IF pr.status = PRStatusMerged THEN CodePRMerged
        ELSE IF ~IsAssigned(prID, oldReviewerID) THEN CodeNotAssigned
        ELSE IF ~oldReviewer.exists THEN CodeNotFound
        ELSE OK

\* ExcludeUserIDs without the author: the current reviewers only.
ExcludeReviewersOnly(authorID, currentReviewers) == currentReviewers

\* ReassignReviewer, line 317: the author, then the current reviewers.
ExcludeUserIDs(authorID, currentReviewers) == <<authorID>> \o currentReviewers

\* NewReviewer taking the last candidate.
LastCandidate(candidates) == candidates[Len(candidates)]

\* ReassignReviewer, line 336: candidates[0].Id
NewReviewer(candidates) == candidates[1]

\* ReassignReviewerTx deleting the old edge before it looks for candidates.
ReassignDeleteFirst(prID, oldReviewerID) ==
    LET pr == FindByID(prID)
        oldReviewer == UserFindByID(oldReviewerID)
        currentReviewers == GetReviewers(edges, prID)
        excludeUserIDs == ExcludeUserIDs(pr.author, currentReviewers)
        candidates ==
            FindActiveCandidatesForReassignment(oldReviewer.team, excludeUserIDs)
        newReviewerID == NewReviewer(candidates)
        newEdges == ReplaceReviewer(edges, prID, oldReviewerID, newReviewerID)
        check == ReassignPrecheck(prID, oldReviewerID)
    IN  IF check # OK THEN Fail(check)
        ELSE IF Len(candidates) = 0
        THEN [Fail(CodeNoCandidate) EXCEPT !.writes = 1]
        ELSE [TxResult EXCEPT
                !.edges = newEdges,
                !.status = pr.status,
                !.reviewers = GetReviewers(newEdges, prID),
                !.replacedBy = newReviewerID,
                !.writes = 2]

\* ReassignReviewer, lines 264-366: the transaction body.
ReassignReviewerTx(prID, oldReviewerID) ==
    LET pr == FindByID(prID)
        oldReviewer == UserFindByID(oldReviewerID)
        currentReviewers == GetReviewers(edges, prID)
        excludeUserIDs == ExcludeUserIDs(pr.author, currentReviewers)
        candidates ==
            FindActiveCandidatesForReassignment(oldReviewer.team, excludeUserIDs)
        newReviewerID == NewReviewer(candidates)
        newEdges == ReplaceReviewer(edges, prID, oldReviewerID, newReviewerID)
        check == ReassignPrecheck(prID, oldReviewerID)
    IN  IF check # OK THEN Fail(check)
        ELSE IF Len(candidates) = 0 THEN Fail(CodeNoCandidate)
        ELSE IF ReplaceConflict(edges, prID, oldReviewerID, newReviewerID)
        THEN [Fail(InternalError) EXCEPT !.writes = 1]
        ELSE [TxResult EXCEPT
                !.edges = newEdges,
                !.status = pr.status,
                !.reviewers = GetReviewers(newEdges, prID),
                !.replacedBy = newReviewerID,
                !.writes = 2]

ReassignReviewer(prID, oldReviewerID) ==
    LET tx == ReassignReviewerTx(prID, oldReviewerID)
    IN  /\ Call
        /\ WithinTransaction(tx)
        /\ resp' = Respond("ReassignReviewer", prID, tx)

(***************************************************************************)
(* TeamService and UserService.                                            *)
(***************************************************************************)
RECURSIVE RemoveTeamReviewers(_, _, _, _)
\* RemoveTeamReviewers leaving the loop after its first removal.
RemoveFirstTeamReviewer(acc, prID, reviewers, reviewerIDs) ==
    LET hit == {i \in 1..Len(reviewers) : reviewers[i] \in Range(reviewerIDs)}
        first == CHOOSE i \in hit : \A j \in hit : i <= j
    IN  IF hit = {} THEN acc
        ELSE [edges |-> RemoveReviewer(acc.edges, prID, reviewers[first]),
              removed |-> acc.removed + 1]

\* DeactivateTeam, lines 197-207: every reviewer of the PR that is one of
\* reviewerIDs is removed and counted.  acc is [edges, removed].
RemoveTeamReviewers(acc, prID, reviewers, reviewerIDs) ==
    IF reviewers = <<>> THEN acc
    ELSE LET reviewerID == Head(reviewers)
             next == IF reviewerID \in Range(reviewerIDs)
                     THEN [edges |-> RemoveReviewer(acc.edges, prID, reviewerID),
                           removed |-> acc.removed + 1]
                     ELSE acc
         IN  RemoveTeamReviewers(next, prID, Tail(reviewers), reviewerIDs)

\* DeactivateTeam, lines 191-208: the loop over the open PRs.
RECURSIVE RemoveFromOpenPRs(_, _, _)
RemoveFromOpenPRs(acc, openPRs, reviewerIDs) ==
    IF openPRs = <<>> THEN acc
    ELSE LET prID == Head(openPRs)
             reviewers == GetReviewers(acc.edges, prID)
         IN  RemoveFromOpenPRs(
                 RemoveTeamReviewers(acc, prID, reviewers, reviewerIDs),
                 Tail(openPRs), reviewerIDs)

\* DeactivateTeam, lines 185-217: the transaction body.
DeactivateTeamTx(teamName, reviewerIDs) ==
    LET openPRs == FindOpenPRsByReviewers(edges, reviewerIDs)
        done == RemoveFromOpenPRs([edges |-> edges, removed |-> 0],
                                  openPRs, reviewerIDs)
    IN  [TxResult EXCEPT
            !.edges = done.edges,
            !.users = DeactivateTeamUsers(teamName),
            !.deactivated = Cardinality(DeactivatedRows(teamName)),
            !.removed = done.removed,
            !.userIDs = reviewerIDs,
            !.writes = done.removed + 1]

\* DeactivateTeam: the team and its member IDs are read before the
\* transaction begins.
DeactivateTeam(teamName) ==
    LET t == GetTeamByName(teamName)
        reviewerIDs == FindByTeamName(teamName)
        tx == IF t = {} THEN Fail(CodeNotFound)
              ELSE DeactivateTeamTx(teamName, reviewerIDs)
    IN  /\ Call
        /\ WithinTransaction(tx)
        /\ resp' = Respond("DeactivateTeam", 0, tx)

\* AddTeam: members maps each member's user ID to its is_active flag.
AddTeam(teamName, members) ==
    LET tx == IF DOMAIN members = {} THEN Fail(CodeBadRequest)
              ELSE IF IsExists(teamName) THEN Fail(CodeTeamExists)
              ELSE [TxResult EXCEPT
                      !.users = CreateOrUpdateTeam(teamName, members),
                      !.writes = Cardinality(DOMAIN members)]
    IN  /\ Call
        /\ WithinTransaction(tx)
        /\ resp' = Respond("AddTeam", 0, tx)

SetIsActive(userID, isActive) ==
    LET user == UserFindByID(userID)
        tx == IF ~user.exists THEN Fail(CodeNotFound)
              ELSE [TxResult EXCEPT
                      !.users = UserSetIsActive(userID, isActive),
                      !.user = [id |-> userID, team |-> user.team,
                                active |-> isActive],
                      !.writes = 1]
    IN  /\ Call
        /\ WithinTransaction(tx)
        /\ resp' = Respond("SetIsActive", 0, tx)

(***************************************************************************)
(* The state machine: an empty database, then any sequence of calls.       *)
(***************************************************************************)
Init ==
    /\ users = [u \in Users |-> NoUser]
    /\ prs = [p \in PRIds |-> NoPR]
    /\ edges = {}
    /\ resp = NoResp
    /\ everAssigned = [p \in PRIds |-> {}]
    /\ calls = 0
    /\ txs = [w \in Workers |-> NoTx]

Next ==
    \/ \E r \in TeamRequests : AddTeam(r[1], r[2])
    \/ \E u \in Users, b \in BOOLEAN : SetIsActive(u, b)
    \/ \E p \in PRIds, title \in Titles, a \in Users : CreatePR(p, title, a)
    \/ \E p \in PRIds : MergePR(p)
    \/ \E p \in PRIds, u \in Users : ReassignReviewer(p, u)
    \/ \E t \in TeamNames : DeactivateTeam(t)

Spec == Init /\ [][Next]_vars

(***************************************************************************)
(* Calls in steps.  A call that runs in a transaction takes its snapshot   *)
(* at BeginTx (Repeatable Read: every read of the body sees the tables as  *)
(* they were committed then, plus the body's own writes), executes its     *)
(* write statements one by one, and ends in a commit or a rollback.  What  *)
(* the body reads, decides and returns follows from the snapshot, so it is *)
(* computed at BeginTx by the same operators as in Spec; the statements    *)
(* are steps of their own because they meet the other worker's: a row      *)
(* written by a transaction in flight is locked, and a row that another    *)
(* transaction committed after the snapshot cannot be written.             *)
(***************************************************************************)
\* A row: of table "pr" or "user" by its id a, or the edge (a, b).
Key(t, a, b) == [t |-> t, a |-> a, b |-> b]

\* The tables as committed.
Committed == [users |-> users, prs |-> prs, edges |-> edges]

\* The row k in the tables S; for an edge, whether it is there.
RowOf(S, k) ==
    IF k.t = "pr" THEN S.prs[k.a]
    ELSE IF k.t = "user" THEN S.users[k.a]
    ELSE <<k.a, k.b>> \in S.edges

\* OnPool with every statement sent to the pool.
EveryStatementOnPool(op, table) == TRUE

\* Whether a write statement of the body op on the table goes to the pool,
\* where it is committed at once, or to the transaction that getTx finds in
\* the context: UpdateStatus, which MergePR calls, is the one that uses the
\* pool.
OnPool(op, table) == op = "MergePR" /\ table = "pr"

\* One statement per edge of E, in the order of pr_id, then reviewer_id.
RECURSIVE EdgeStatements(_, _)
EdgeStatements(E, pool) ==
    IF E = {} THEN <<>>
    ELSE LET e == CHOOSE x \in E : \A y \in E :
                      x[1] < y[1] \/ (x[1] = y[1] /\ x[2] <= y[2])
         IN  <<[keys |-> {Key("edge", e[1], e[2])}, pool |-> pool]>>
                 \o EdgeStatements(E \ {e}, pool)

\* The write statements of a body with result res, in the order the bodies
\* issue them: the PR row (Create, or UpdateStatus, which goes to the pool
\* and not to the transaction), the edges deleted, the edges inserted, and
\* DeactivateTeamUsers.
Statements(op, res) ==
    IF res.err # OK THEN <<>>
    ELSE LET prKeys == {Key("pr", p, 0) : p \in {q \in PRIds : res.prs[q] # prs[q]}}
             userKeys ==
                 {Key("user", u, 0) : u \in {v \in Users : res.users[v] # users[v]}}
         IN  (IF prKeys = {} THEN <<>>
              ELSE <<[keys |-> prKeys, pool |-> OnPool(op, "pr")]>>)
             \o EdgeStatements(edges \ res.edges, OnPool(op, "edge"))
             \o EdgeStatements(res.edges \ edges, OnPool(op, "edge"))
             \o (IF op = "DeactivateTeam"
                 THEN <<[keys |-> userKeys, pool |-> OnPool(op, "user")]>>
                 ELSE <<>>)

\* LockedByOther with no row ever locked.
NeverLocked(w, keys) == FALSE

\* Some other transaction in flight has written one of the rows.
LockedByOther(w, keys) ==
    \E v \in Workers \ {w} : txs[v].pc = "run" /\ txs[v].locks \cap keys # {}

\* A nested call of the worker is in flight: the worker waits for it.
Suspended(w) == \E v \in Workers : txs[v].pc = "run" /\ txs[v].parent = w

\* The panic of a body, as what the call ends with.
Panic == "PANIC"

\* Commits going on to tx.Commit also after fn returned an error.
CommitsAfterError(fnErr, commitOK) == commitOK

\* WithinTransaction, lines 41-48: tx.Commit is called, and the transaction's
\* writes persist, when fn returned nil and the commit did not fail.
Commits(fnErr, commitOK) == fnErr = OK /\ commitOK

\* Returned dropping the error of tx.Commit.
ReturnedWithoutCommitError(fnErr, commitOK) == fnErr

\* WithinTransaction, lines 30-50: what the call returns (or panics with).
Returned(fnErr, commitOK) ==
    IF fnErr # OK THEN fnErr
    ELSE IF commitOK THEN OK
    ELSE InternalError

\* WithinTransaction, line 23: BeginTx at Repeatable Read; the body res is
\* what fn will do on this snapshot.
Begin(w, parent, op, prID, arg, res) ==
    /\ Call
    /\ txs[w].pc = "idle"
    /\ txs' = [txs EXCEPT ![w] =
                 [pc |-> "run", op |-> op, pr |-> prID, arg |-> arg,
                  parent |-> parent,
                  snap |-> Committed, res |-> res,
                  todo |-> Statements(op, res), locks |-> {}, wrote |-> {},
                  done |-> 0]]
    /\ UNCHANGED <<users, prs, edges, resp, everAssigned>>

\* WithinTransaction, lines 30-50: the transaction of worker w ends; fnErr is
\* what fn returned (OK for nil, Panic for a panic).
EndTransaction(w, fnErr, commitOK) ==
    LET t == txs[w]
        W == IF Commits(fnErr, commitOK) THEN t.locks ELSE {}
        err == Returned(fnErr, commitOK)
        E == {e \in edges \cup t.res.edges :
                 IF Key("edge", e[1], e[2]) \in W
                 THEN e \in t.res.edges ELSE e \in edges}
    IN  /\ users' = [u \in Users |-> IF Key("user", u, 0) \in W
                                     THEN t.res.users[u] ELSE users[u]]
        /\ prs' = [p \in PRIds |-> IF Key("pr", p, 0) \in W
                                   THEN t.res.prs[p] ELSE prs[p]]
        /\ edges' = E
        /\ everAssigned' = Track(E)
        /\ txs' = [txs EXCEPT ![w] = NoTx]
        /\ resp' = IF err = OK THEN Respond(t.op, t.pr, t.res)
                   ELSE [NoResp EXCEPT !.op = t.op, !.pr = t.pr, !.err = err,
                                       !.writes = t.done]
        /\ UNCHANGED calls

\* Conflict with no statement ever failing on a row.
NoConflict(t, keys) == FALSE

\* A statement of the transaction t on the rows keys fails when another
\* transaction committed one of them since the snapshot: a serialization
\* failure for an UPDATE or a DELETE, a unique violation for an INSERT.
Conflict(t, keys) ==
    \E k \in keys : RowOf(Committed, k) # RowOf(t.snap, k)

\* The next write statement of the body of worker w.  On the pool it is
\* committed at once.  In the transaction it waits for a row that is locked,
\* fails on a row committed by another transaction since the snapshot
\* (serialization failure or unique violation), and else locks its rows.
Exec(w) ==
    LET t == txs[w]
        s == Head(t.todo)
    IN  /\ t.pc = "run" /\ t.todo # <<>>
        /\ ~Suspended(w)
        /\ ~LockedByOther(w, s.keys)
        /\ IF s.pool
           THEN LET E == {e \in edges \cup t.res.edges :
                             IF Key("edge", e[1], e[2]) \in s.keys
                             THEN e \in t.res.edges ELSE e \in edges}
                IN  /\ users' = [u \in Users |->
                                    IF Key("user", u, 0) \in s.keys
                                    THEN t.res.users[u] ELSE users[u]]
                    /\ prs' = [p \in PRIds |->
                                  IF Key("pr", p, 0) \in s.keys
                                  THEN t.res.prs[p] ELSE prs[p]]
                    /\ edges' = E
                    /\ everAssigned' = Track(E)
                    /\ txs' = [txs EXCEPT ![w].todo = Tail(t.todo),
                                          ![w].wrote = t.wrote \cup s.keys,
                                          ![w].done = t.done + 1]
                    /\ UNCHANGED <<resp, calls>>
           ELSE IF Conflict(t, s.keys)
           THEN EndTransaction(w, InternalError, TRUE)
           ELSE /\ txs' = [txs EXCEPT ![w].todo = Tail(t.todo),
                                      ![w].locks = t.locks \cup s.keys,
                                      ![w].wrote = t.wrote \cup s.keys,
                                      ![w].done = t.done + 1]
                /\ UNCHANGED <<users, prs, edges, resp, everAssigned, calls>>

\* The body of worker w returns, nil or its domain error, and the transaction
\* ends; the commit may fail.
Finish(w) ==
    /\ txs[w].pc = "run" /\ txs[w].todo = <<>>
    /\ ~Suspended(w)
    /\ \E commitOK \in BOOLEAN : EndTransaction(w, txs[w].res.err, commitOK)

\* A statement of the body of worker w fails in the storage (or the context
\* is cancelled or timed out) and the body returns the error, or the body
\* panics.
Fault(w, fnErr) ==
    /\ txs[w].pc = "run" /\ txs[w].res.err = OK
    /\ ~Suspended(w)
    /\ EndTransaction(w, fnErr, TRUE)

\* The calls that open a transaction.  The workers are interchangeable: the
\* second one is taken only while the first is busy.
Free(w) == w = "w1" \/ txs["w1"].pc # "idle"

BeginCreatePR(w, prID, title, authorID) ==
    /\ Free(w)
    /\ Begin(w, "", "CreatePR", prID, authorID,
             CreatePRTx(prID, title, authorID))

BeginMergePR(w, prID) ==
    \E mergedAt \in Times :
        Free(w) /\ Begin(w, "", "MergePR", prID, 0, MergePRTx(prID, mergedAt))

BeginReassignReviewer(w, prID, oldReviewerID) ==
    /\ Free(w)
    /\ Begin(w, "", "ReassignReviewer", prID, oldReviewerID,
             ReassignReviewerTx(prID, oldReviewerID))

BeginDeactivateTeam(w, teamName) ==
    /\ Free(w)
    /\ GetTeamByName(teamName) # {}
    /\ Begin(w, "", "DeactivateTeam", 0, 0,
             DeactivateTeamTx(teamName, FindByTeamName(teamName)))

\* The calls that open no transaction of the unit of work: their statements
\* go to the pool and wait for the rows that a transaction has locked.
PoolAddTeam(teamName, members) ==
    /\ ~LockedByOther("", {Key("user", u, 0) : u \in DOMAIN members})
    /\ AddTeam(teamName, members)

PoolSetIsActive(userID, isActive) ==
    /\ ~LockedByOther("", {Key("user", userID, 0)})
    /\ SetIsActive(userID, isActive)

PoolDeactivateUnknownTeam(teamName) ==
    /\ GetTeamByName(teamName) = {}
    /\ DeactivateTeam(teamName)

\* SpecTx starts where Spec is after AddTeam("backend", every user active) and
\* CreatePR(1, "Add X", 1), an OPEN PR of user 1 with the reviewers 2 and 3,
\* or where it is after a further AddTeam("frontend", users 2 and 4), which
\* leaves the two reviewers on different teams; two further calls follow.
InitTx ==
    /\ \E moved \in BOOLEAN :
        /\ users = [u \in Users |->
                      User(IF moved /\ u \in {2, 4} THEN "frontend"
                           ELSE "backend", TRUE)]
        /\ resp = IF moved
                  THEN [NoResp EXCEPT !.op = "AddTeam", !.writes = 2]
                  ELSE [NoResp EXCEPT !.op = "CreatePR", !.pr = 1,
                                      !.status = PRStatusOpen,
                                      !.reviewers = <<2, 3>>, !.writes = 3]
    /\ prs = [p \in PRIds |->
                IF p = 1 THEN PullRequest("Add X", 1, PRStatusOpen, 1, NullTime)
                ELSE NoPR]
    /\ edges = {<<1, 2>>, <<1, 3>>}
    /\ everAssigned = [p \in PRIds |-> IF p = 1 THEN {2, 3} ELSE {}]
    /\ calls = MaxCalls - 2
    /\ txs = [w \in Workers |-> NoTx]

NextTx ==
    \/ \E r \in TeamRequests : PoolAddTeam(r[1], r[2])
    \/ \E u \in Users, b \in BOOLEAN : PoolSetIsActive(u, b)
    \/ \E t \in TeamNames : PoolDeactivateUnknownTeam(t)
    \/ \E w \in Workers, p \in PRIds, title \in Titles, a \in Users :
          BeginCreatePR(w, p, title, a)
    \/ \E w \in Workers, p \in PRIds : BeginMergePR(w, p)
    \/ \E w \in Workers, p \in PRIds, u \in Users : BeginReassignReviewer(w, p, u)
    \/ \E w \in Workers, t \in TeamNames : BeginDeactivateTeam(w, t)
    \/ \E w \in Workers : Exec(w)
    \/ \E w \in Workers : Finish(w)
    \/ \E w \in Workers, f \in {InternalError, Panic} : Fault(w, f)

SpecTx == InitTx /\ [][NextTx]_vars

\* WithinTransaction, line 20: the context of the transaction is done after
\* the timeout (or when the caller cancels), and a body that is waiting for
\* the store then gets the error; a body that has nothing left to execute
\* returns.  So a transaction in flight does not stay in flight forever.
Timeout ==
    \A w \in Workers : WF_vars(Fault(w, InternalError)) /\ WF_vars(Finish(w))

SpecTimeout == SpecTx /\ Timeout

\* WithinTransaction called by worker w from inside the body of its open
\* transaction, with that body's context: line 23 begins a transaction on the
\* pool whatever the context carries, and line 39 hands the new one to fn.
\* The inner fn here is the body of CreatePR; the worker waits for it in the
\* slot v.
NestedWithinTransaction(w, v, prID, title, authorID) ==
    /\ txs[w].pc = "run" /\ txs[w].parent = ""
    /\ ~Suspended(w)
    /\ Begin(v, w, "CreatePR", prID, authorID,
             CreatePRTx(prID, title, authorID))

NextNested ==
    \/ NextTx
    \/ \E w \in Workers, v \in Workers, p \in PRIds, title \in Titles,
          a \in Users : NestedWithinTransaction(w, v, p, title, a)

SpecNested == InitTx /\ [][NextNested]_vars

\* AddTeam in its two steps.  First lines 71-88: the request has members and
\* IsExists, a query on the pool, finds no user with the team name; the
\* worker goes on with the request it holds.  A request that is refused
\* there returns at once and is the AddTeam of PoolAddTeam.
AddTeamIsExists(w, teamName, members) ==
    /\ Free(w)
    /\ Call
    /\ txs[w].pc = "idle"
    /\ DOMAIN members # {}
    /\ ~IsExists(teamName)
    /\ txs' = [txs EXCEPT ![w] =
                 [NoTx EXCEPT !.pc = "add", !.op = "AddTeam",
                              !.res = <<teamName, members>>]]
    /\ UNCHANGED <<users, prs, edges, resp, everAssigned>>

\* Then line 103: CreateOrUpdateTeam upserts the members in a transaction of
\* its own, on the rows as they are committed by then, and the call returns
\* the team.
AddTeamCreateOrUpdateTeam(w) ==
    LET teamName == txs[w].res[1]
        members == txs[w].res[2]
        tx == [TxResult EXCEPT
                  !.users = CreateOrUpdateTeam(teamName, members),
                  !.writes = Cardinality(DOMAIN members)]
    IN  /\ txs[w].pc = "add"
        /\ ~LockedByOther(w, {Key("user", u, 0) : u \in DOMAIN members})
        /\ users' = tx.users
        /\ txs' = [txs EXCEPT ![w] = NoTx]
        /\ resp' = Respond("AddTeam", 0, tx)
        /\ UNCHANGED <<prs, edges, everAssigned, calls>>

NextTeams ==
    \/ NextTx
    \/ \E w \in Workers, r \in TeamRequests : AddTeamIsExists(w, r[1], r[2])
    \/ \E w \in Workers : AddTeamCreateOrUpdateTeam(w)

SpecTeams == InitTx /\ [][NextTeams]_vars

\* The connection pool (pgxpool.New): here as many connections as there are
\* workers, the case of N calls at a time on a pool of N.
PoolSize == Cardinality(Workers)

\* An open transaction holds the connection that BeginTx acquired, until its
\* commit or rollback.
InUse == Cardinality({v \in Workers : txs[v].pc = "run"})

\* pool.Exec, pool.Query, pool.Begin and pool.BeginTx acquire a connection
\* and wait while none is free.
Acquire == InUse < PoolSize

\* A call whose statements all go to the pool.
PoolCall ==
    /\ Acquire
    /\ \/ \E r \in TeamRequests : PoolAddTeam(r[1], r[2])
       \/ \E u \in Users, b \in BOOLEAN : PoolSetIsActive(u, b)
       \/ \E t \in TeamNames : PoolDeactivateUnknownTeam(t)

\* WithinTransaction, line 23: BeginTx takes a connection of the pool.
BeginTx(w) ==
    /\ Acquire
    /\ \/ \E p \in PRIds, title \in Titles, a \in Users :
             BeginCreatePR(w, p, title, a)
       \/ \E p \in PRIds : BeginMergePR(w, p)
       \/ \E p \in PRIds, u \in Users : BeginReassignReviewer(w, p, u)
       \/ \E t \in TeamNames : BeginDeactivateTeam(w, t)

\* The next statement of worker w: on the connection of its transaction, or,
\* for a statement sent to the pool, on one more connection.
ExecOnConn(w) ==
    /\ txs[w].pc = "run" /\ txs[w].todo # <<>>
    /\ Head(txs[w].todo).pool => Acquire
    /\ Exec(w)

NextPool ==
    \/ PoolCall
    \/ \E w \in Workers : BeginTx(w)
    \/ \E w \in Workers : ExecOnConn(w)
    \/ \E w \in Workers : Finish(w)
    \/ \E w \in Workers, f \in {InternalError, Panic} : Fault(w, f)

SpecPool == InitTx /\ [][NextPool]_vars

\* The team names numbered, to keep the team of a DeactivateTeam in the
\* record of its call.
TeamNumber(teamName) == IF teamName = "backend" THEN 1 ELSE 2
TeamNamed(n) == IF n = 1 THEN "backend" ELSE "frontend"

\* DeactivateTeam in its steps.  First lines 157-180, before the transaction:
\* GetTeamByName finds the team and FindByTeamName, with no transaction in
\* its context, reads the member IDs from the pool; the call keeps them.
DeactivateTeamFindByTeamName(w, teamName) ==
    /\ Free(w)
    /\ Call
    /\ txs[w].pc = "idle"
    /\ GetTeamByName(teamName) # {}
    /\ txs' = [txs EXCEPT ![w] =
                 [NoTx EXCEPT !.pc = "read", !.op = "DeactivateTeam",
                              !.arg = TeamNumber(teamName),
                              !.res = FindByTeamName(teamName)]]
    /\ UNCHANGED <<users, prs, edges, resp, everAssigned>>

\* Then line 185: the transaction begins, and its body works with the member
\* IDs read before and the tables as they are committed by now.
DeactivateTeamBeginTx(w) ==
    LET res == DeactivateTeamTx(TeamNamed(txs[w].arg), txs[w].res)
    IN  /\ txs[w].pc = "read"
        /\ txs' = [txs EXCEPT ![w] =
                     [pc |-> "run", op |-> "DeactivateTeam", pr |-> 0,
                      arg |-> txs[w].arg, parent |-> "",
                      snap |-> Committed, res |-> res,
                      todo |-> Statements("DeactivateTeam", res),
                      locks |-> {}, wrote |-> {}, done |-> 0]]
        /\ UNCHANGED <<users, prs, edges, resp, everAssigned, calls>>

NextDeactivate ==
    \/ \E r \in TeamRequests : PoolAddTeam(r[1], r[2])
    \/ \E u \in Users, b \in BOOLEAN : PoolSetIsActive(u, b)
    \/ \E t \in TeamNames : PoolDeactivateUnknownTeam(t)
    \/ \E w \in Workers, p \in PRIds, title \in Titles, a \in Users :
          BeginCreatePR(w, p, title, a)
    \/ \E w \in Workers, p \in PRIds : BeginMergePR(w, p)
    \/ \E w \in Workers, p \in PRIds, u \in Users : BeginReassignReviewer(w, p, u)
    \/ \E w \in Workers, t \in TeamNames : DeactivateTeamFindByTeamName(w, t)
    \/ \E w \in Workers : DeactivateTeamBeginTx(w)
    \/ \E w \in Workers : Exec(w)
    \/ \E w \in Workers : Finish(w)
    \/ \E w \in Workers, f \in {InternalError, Panic} : Fault(w, f)

SpecDeactivate == InitTx /\ [][NextDeactivate]_vars

(***************************************************************************)
(* Properties.                                                             *)
(***************************************************************************)
ReviewersOf(E, p) == {r \in Users : <<p, r>> \in E}

IsAscending(s) == \A i, j \in 1..Len(s) : i < j => s[i] < s[j]

\* The active users with team name t.
ActiveMembers(t) ==
    {u \in Users : users[u].exists /\ users[u].active /\ users[u].team = t}

\* C1: every successful CreatePR creates between 0 and 2 reviewer edges, all
\* of them on the new PR and none of them to the PR's author.
C1_CreateQuota ==
    [][\A p \in PRIds, t \in Titles, a \in Users :
        (/\ resp'.op = "CreatePR" /\ resp'.pr = p /\ resp'.err = OK
         /\ CreatePR(p, t, a)) =>
            LET created == edges' \ edges
            IN  /\ \A e \in created : e[1] = p /\ e[2] # a
                /\ Cardinality(created) \in 0..2
                /\ ReviewersOf(edges', p) = {e[2] : e \in created}
                /\ Len(resp'.reviewers) \in 0..2
                /\ a \notin Range(resp'.reviewers)]_vars

\* A CreatePR that assigned 2 reviewers while a third active teammate of the
\* author was left out.
C1_Witness ==
    /\ resp.op = "CreatePR" /\ resp.err = OK
    /\ Cardinality(ReviewersOf(edges, resp.pr)) = 2
    /\ \E u \in ActiveMembers(users[prs[resp.pr].author].team) :
          u # prs[resp.pr].author /\ u \notin ReviewersOf(edges, resp.pr)

\* C2: CreatePR(p, title, a) on a fresh id by an existing, active author with
\* a team succeeds, also with an empty pool, and what it assigns and returns
\* is the first min(2, |pool|) IDs of the pool in ascending order, the pool
\* being the active users with the author's team name other than the author.
C2_PrefixSelection ==
    [][\A p \in PRIds, t \in Titles, a \in Users :
        (resp'.op = "CreatePR" /\ resp'.pr = p /\ CreatePR(p, t, a)) =>
            LET pool == ActiveMembers(users[a].team) \ {a}
                n == IF Cardinality(pool) < 2 THEN Cardinality(pool) ELSE 2
                chosen == Range(resp'.reviewers)
                valid == /\ ~prs[p].exists
                         /\ users[a].exists /\ users[a].active
                         /\ users[a].team # ""
            IN  /\ valid => resp'.err = OK
                /\ resp'.err = OK =>
                      /\ Len(resp'.reviewers) = n
                      /\ IsAscending(resp'.reviewers)
                      /\ chosen \subseteq pool
                      /\ \A u \in pool \ chosen : \A r \in chosen : r < u
                      /\ ReviewersOf(edges', p) = chosen]_vars

\* A CreatePR whose author has an ID between those of the two reviewers.
C2_Witness ==
    /\ resp.op = "CreatePR" /\ resp.err = OK
    /\ Len(resp.reviewers) = 2
    /\ resp.reviewers[1] < prs[resp.pr].author
    /\ prs[resp.pr].author < resp.reviewers[2]

\* C3 as claimed: the reviewer a successful ReassignReviewer(p, old) chooses is
\* not the author, not old, and not a user that is or ever was a reviewer of p.
C3_NeverPreviouslyAssigned ==
    [][\A p \in PRIds, old \in Users :
        (/\ resp'.op = "ReassignReviewer" /\ resp'.pr = p
         /\ resp'.err = OK
         /\ ReassignReviewer(p, old)) =>
            resp'.replacedBy \notin
                ({prs[p].author} \cup {old} \cup everAssigned[p])]_vars

\* C3 amended: the reviewer a successful ReassignReviewer(p, old) chooses is
\* not the author, not old, and not a reviewer of p at the time of the call.
C3_ReassignExclusion ==
    [][\A p \in PRIds, old \in Users :
        (/\ resp'.op = "ReassignReviewer" /\ resp'.pr = p
         /\ resp'.err = OK
         /\ ReassignReviewer(p, old)) =>
            resp'.replacedBy \notin
                ({prs[p].author} \cup {old} \cup ReviewersOf(edges, p))]_vars

\* A successful reassignment on a PR whose author is an active member of the
\* new reviewer's team.
C3_Witness ==
    /\ resp.op = "ReassignReviewer" /\ resp.err = OK
    /\ resp.replacedBy \in ReviewersOf(edges, resp.pr)
    /\ prs[resp.pr].author \in ActiveMembers(users[resp.replacedBy].team)

C5_MergedBlocksReassign ==
    [][\A p \in PRIds, old \in Users :
        (/\ prs[p].exists /\ prs[p].status = PRStatusMerged
         /\ resp'.op = "ReassignReviewer" /\ resp'.pr = p
         /\ ReassignReviewer(p, old)) =>
            /\ resp'.err = CodePRMerged
            /\ resp'.writes = 0
            /\ edges' = edges]_vars

\* A ReassignReviewer refused with PR_MERGED on a PR that has reviewers.
C5_Witness ==
    /\ resp.op = "ReassignReviewer" /\ resp.err = CodePRMerged
    /\ ReviewersOf(edges, resp.pr) # {}

\* C6: a PR is created OPEN, its status is always OPEN or MERGED, and a MERGED
\* PR stays MERGED.
C6_StatusOneWay ==
    [][\A p \in PRIds :
        /\ prs[p].exists => prs'[p].exists
        /\ (~prs[p].exists /\ prs'[p].exists) => prs'[p].status = PRStatusOpen
        /\ prs'[p].exists => prs'[p].status \in {PRStatusOpen, PRStatusMerged}
        /\ (prs[p].exists /\ prs[p].status = PRStatusMerged) =>
              prs'[p].status = PRStatusMerged]_vars

\* A CreatePR refused on the id of a MERGED PR.
C6_Witness ==
    /\ resp.op = "CreatePR" /\ resp.err = CodePRExists
    /\ prs[resp.pr].status = PRStatusMerged

\* C7: after a successful DeactivateTeam(T) no OPEN PR has a reviewer whose
\* team was T before the call, and every user with team T is inactive.
C7_DeactivationCascade ==
    [][\A T \in TeamNames :
        (/\ resp'.op = "DeactivateTeam" /\ resp'.err = OK
         /\ DeactivateTeam(T)) =>
            LET members == {u \in Users : users[u].exists /\ users[u].team = T}
            IN  /\ \A p \in PRIds :
                      (prs'[p].exists /\ prs'[p].status = PRStatusOpen) =>
                          ReviewersOf(edges', p) \cap members = {}
                /\ \A u \in Users :
                      (users'[u].exists /\ users'[u].team = T) =>
                          ~users'[u].active]_vars

\* A DeactivateTeam that removed 2 or more edges and deactivated a user.
C7_Witness ==
    /\ resp.op = "DeactivateTeam" /\ resp.err = OK
    /\ resp.removed >= 2 /\ resp.deactivated >= 1

\* C8: a successful ReassignReviewer(p, old) changes the store by one swap:
\* the edge (p, old) goes, the edge (p, new) comes, every other edge, every
\* user and every PR row stays, p has as many reviewers as before, and the
\* response lists p's reviewers after the swap with replaced_by = new.
C8_AtomicSwap ==
    [][\A p \in PRIds, old \in Users :
        (/\ resp'.op = "ReassignReviewer" /\ resp'.pr = p
         /\ resp'.err = OK
         /\ ReassignReviewer(p, old)) =>
            LET new == resp'.replacedBy
            IN  /\ <<p, old>> \in edges
                /\ <<p, new>> \notin edges
                /\ edges' \ edges = {<<p, new>>}
                /\ edges \ edges' = {<<p, old>>}
                /\ Cardinality(ReviewersOf(edges', p)) =
                       Cardinality(ReviewersOf(edges, p))
                /\ users' = users
                /\ prs' = prs
                /\ IsAscending(resp'.reviewers)
                /\ Range(resp'.reviewers) = ReviewersOf(edges', p)]_vars

\* A successful reassignment on a PR with 2 reviewers while another PR has
\* reviewers too.
C8_Witness ==
    /\ resp.op = "ReassignReviewer" /\ resp.err = OK
    /\ Cardinality(ReviewersOf(edges, resp.pr)) = 2
    /\ \E q \in PRIds \ {resp.pr} : ReviewersOf(edges, q) # {}

\* C9: a ReassignReviewer(p, old) on an OPEN PR with old assigned to it takes
\* the lowest ID of the pool, the active users with old's team name other than
\* the author and the current reviewers, and fails with NO_CANDIDATE exactly
\* when the pool is empty; no call fails with NO_CANDIDATE on a pool that is
\* not empty.
C9_LowestCandidate ==
    [][\A p \in PRIds, old \in Users :
        (/\ resp'.op = "ReassignReviewer" /\ resp'.pr = p
         /\ ReassignReviewer(p, old)) =>
            LET pool == ActiveMembers(users[old].team) \
                            ({prs[p].author} \cup ReviewersOf(edges, p))
                reached == /\ prs[p].exists /\ prs[p].status = PRStatusOpen
                           /\ <<p, old>> \in edges /\ users[old].exists
            IN  /\ resp'.err = CodeNoCandidate => (reached /\ pool = {})
                /\ (reached /\ pool = {}) => resp'.err = CodeNoCandidate
                /\ (reached /\ pool # {}) =>
                      /\ resp'.err = OK
                      /\ resp'.replacedBy \in pool
                      /\ \A u \in pool : resp'.replacedBy <= u]_vars

\* A successful reassignment that had a second candidate to choose from: an
\* active member of the new reviewer's team with a higher ID that is not the
\* author and never was a reviewer of the PR.
C9_Witness ==
    /\ resp.op = "ReassignReviewer" /\ resp.err = OK
    /\ \E u \in ActiveMembers(users[resp.replacedBy].team) :
          /\ u > resp.replacedBy
          /\ u # prs[resp.pr].author
          /\ u \notin everAssigned[resp.pr]

\* C10: a CreatePR, MergePR, ReassignReviewer or DeactivateTeam that returns
\* NOT_FOUND, PR_EXISTS, PR_MERGED, NOT_ASSIGNED or NO_CANDIDATE has executed
\* no write statement and leaves users, PRs and edges as they were.
C10_DomainErrorsWriteNothing ==
    [][(/\ resp'.op \in {"CreatePR", "MergePR", "ReassignReviewer",
                         "DeactivateTeam"}
        /\ resp'.err \in {CodeNotFound, CodePRExists, CodePRMerged,
                          CodeNotAssigned, CodeNoCandidate}) =>
            /\ resp'.writes = 0
            /\ users' = users
            /\ prs' = prs
            /\ edges' = edges]_vars

\* A ReassignReviewer refused with NO_CANDIDATE, the last of the checks.
C10_Witness ==
    /\ resp.op = "ReassignReviewer" /\ resp.err = CodeNoCandidate
    /\ resp.writes = 0

\* C17: every edge that a CreatePR or a ReassignReviewer inserts is to a user
\* who at that moment is active and has the team name of the PR's author.
C17_ReviewerOnAuthorsTeam ==
    [][(resp'.op \in {"CreatePR", "ReassignReviewer"} /\ resp'.err = OK) =>
        \A e \in edges' \ edges :
            /\ users[e[2]].exists /\ users[e[2]].active
            /\ users[e[2]].team = users[prs'[e[1]].author].team]_vars

\* C19: a CreatePR with an id that is present fails with PR_EXISTS whoever the
\* author is and leaves the PR rows and the edges as they were; a CreatePR
\* succeeds only on an id that is not present.
C19_DuplicateRejected ==
    [][\A p \in PRIds, t \in Titles, a \in Users :
        (resp'.op = "CreatePR" /\ resp'.pr = p /\ CreatePR(p, t, a)) =>
            /\ prs[p].exists =>
                  /\ resp'.err = CodePRExists
                  /\ prs' = prs
                  /\ edges' = edges
            /\ resp'.err = OK => ~prs[p].exists]_vars

\* A CreatePR refused with PR_EXISTS on the id of an OPEN PR that has
\* reviewers.
C19_Witness ==
    /\ resp.op = "CreatePR" /\ resp.err = CodePRExists
    /\ prs[resp.pr].status = PRStatusOpen
    /\ ReviewersOf(edges, resp.pr) # {}

\* C20: a CreatePR on an id that is not present fails with NOT_FOUND, and
\* creates no PR row and no edge, when the author does not exist, is inactive
\* or has the empty team name; it succeeds only for an existing, active
\* author with a team name.
C20_AuthorPrecondition ==
    [][\A p \in PRIds, t \in Titles, a \in Users :
        (/\ resp'.op = "CreatePR" /\ resp'.pr = p
         /\ ~prs[p].exists
         /\ CreatePR(p, t, a)) =>
            LET valid == /\ users[a].exists /\ users[a].active
                         /\ users[a].team # ""
            IN  /\ ~valid => /\ resp'.err = CodeNotFound
                             /\ prs' = prs
                             /\ edges' = edges
                /\ resp'.err = OK => valid]_vars

\* A CreatePR refused with NOT_FOUND although an existing and active user
\* could have been its author: that user has the empty team name.
C20_Witness ==
    /\ resp.op = "CreatePR" /\ resp.err = CodeNotFound
    /\ ~prs[resp.pr].exists
    /\ \E u \in Users : users[u].exists /\ users[u].active /\ users[u].team = ""
    /\ \A u \in Users : users[u].exists => users[u].team = ""

\* The call of worker w ends in this step.
Ends(w) == txs[w].pc = "run" /\ txs'[w].pc = "idle"

\* C11: when a CreatePR, a ReassignReviewer or a DeactivateTeam ends in an
\* error, after however many of its write statements, the tables are as they
\* were before the step, and every row the call had written has the value it
\* had when the call began: no PR row and no edge of the failed CreatePR, the
\* old edge of the failed ReassignReviewer, every edge the failed
\* DeactivateTeam removed, and no user deactivated.
C11_RollbackOnFailure ==
    [][\A w \in Workers :
        (/\ Ends(w) /\ resp'.err # OK
         /\ txs[w].op \in {"CreatePR", "ReassignReviewer", "DeactivateTeam"}) =>
            /\ <<users', prs', edges'>> = <<users, prs, edges>>
            /\ \A k \in txs[w].locks :
                  RowOf([users |-> users', prs |-> prs', edges |-> edges'], k)
                      = RowOf(txs[w].snap, k)]_vars

\* A DeactivateTeam that failed after 2 or more of its statements, with every
\* edge and every user as before.
C11_Witness ==
    /\ resp.op = "DeactivateTeam" /\ resp.err = InternalError
    /\ resp.writes >= 2
    /\ edges = {<<1, 2>>, <<1, 3>>}
    /\ \A u \in Users : users[u].active

\* C12: when a MergePR of an OPEN PR does not commit, and no other call has
\* written a PR row since it began, the PR rows are as when it began: the PR
\* is OPEN with no merged_at.
C12_MergeWriteInTransaction ==
    [][\A w \in Workers :
        (/\ Ends(w) /\ resp'.err # OK
         /\ txs[w].op = "MergePR"
         /\ \A p \in PRIds \ {txs[w].pr} : prs[p] = txs[w].snap.prs[p]
         /\ prs[txs[w].pr] \in {txs[w].snap.prs[txs[w].pr],
                                txs[w].res.prs[txs[w].pr]}) =>
            prs' = txs[w].snap.prs]_vars

\* C13: the stored merged_at of a PR never changes once it is not null.
C13_MergedAtWrittenOnce ==
    [][\A p \in PRIds :
        prs[p].mergedAt # NullTime => prs'[p].mergedAt = prs[p].mergedAt]_vars

\* C14: a transaction that ends is no longer open, and it ends by what fn
\* returned: after nil and a commit that worked the call returns nil and every
\* write of the transaction is in the tables; after nil and a commit that
\* failed the call returns an error and the step persists nothing; after an
\* error or a panic of fn the call returns that error, or panics, and the step
\* persists nothing.
C14_EndsOneWay ==
    [][\A w \in Workers, commitOK \in BOOLEAN,
          fnErr \in DomainErrors \cup {OK, InternalError, Panic} :
        (/\ txs[w].pc = "run"
         /\ fnErr = OK => txs[w].res.err = OK
         /\ EndTransaction(w, fnErr, commitOK)) =>
            /\ txs'[w].pc = "idle"
            /\ (fnErr = OK /\ commitOK) =>
                  /\ resp'.err = OK
                  /\ \A k \in txs[w].locks :
                        RowOf([users |-> users', prs |-> prs',
                               edges |-> edges'], k)
                            = RowOf(txs[w].res, k)
            /\ (fnErr = OK /\ ~commitOK) =>
                  /\ resp'.err # OK
                  /\ <<users', prs', edges'>> = <<users, prs, edges>>
            /\ fnErr # OK =>
                  /\ resp'.err = fnErr
                  /\ <<users', prs', edges'>> = <<users, prs, edges>>]_vars

\* A call that ended in a panic of its body after a write statement.
C14_Witness ==
    /\ resp.err = Panic /\ resp.writes >= 1
    /\ \A w \in Workers : txs[w].pc = "idle"

\* C16: a ReassignReviewer that commits, with no user row and no PR row
\* changed since it began, leaves the edges, and returns the new reviewer,
\* that the same call gives when it is executed alone on the tables as
\* committed just before; one that fails changes nothing.
C16_ReassignSerializes ==
    [][\A w \in Workers :
        (/\ Ends(w) /\ txs[w].op = "ReassignReviewer"
         /\ txs[w].snap.users = users /\ txs[w].snap.prs = prs) =>
            LET alone == ReassignReviewerTx(txs[w].pr, txs[w].arg)
            IN  IF resp'.err = OK
                THEN /\ alone.err = OK
                     /\ edges' = alone.edges
                     /\ resp'.replacedBy = alone.replacedBy
                ELSE edges' = edges]_vars

\* Two ReassignReviewer calls in flight on the same PR, the next statement of
\* one waiting for a row the other has written.
C16_Witness ==
    \E w \in Workers, v \in Workers :
        /\ w # v
        /\ txs[w].op = "ReassignReviewer" /\ txs[v].op = "ReassignReviewer"
        /\ txs[w].pr = txs[v].pr
        /\ txs[w].arg # txs[v].arg
        /\ txs[w].todo # <<>>
        /\ Head(txs[w].todo).keys \cap txs[v].locks # {}

\* C18: every edge that a committing CreatePR or ReassignReviewer adds is to a
\* user who is active in the tables as committed at that moment.
C18_NoStaleSelection ==
    [][\A w \in Workers :
        (/\ Ends(w) /\ resp'.err = OK
         /\ txs[w].op \in {"CreatePR", "ReassignReviewer"}) =>
            \A e \in edges' \ edges : users'[e[2]].active]_vars

\* C15: a WithinTransaction called from inside the body of an open
\* transaction persists nothing when it returns: its writes belong to the
\* open transaction and wait for that one's end.
C15_NestedReusesTransaction ==
    [][\A v \in Workers :
        (Ends(v) /\ txs[v].parent # "") =>
            <<users', prs', edges'>> = <<users, prs, edges>>]_vars

\* C21: DeactivateTeam on a team name that no user carries fails with
\* NOT_FOUND and changes no user and no edge; MergePR and ReassignReviewer on
\* an id that is not present fail with NOT_FOUND and change no PR row and no
\* edge.
C21_NotFound ==
    [][/\ \A T \in TeamNames :
            (/\ resp'.op = "DeactivateTeam"
             /\ ~\E u \in Users : users[u].exists /\ users[u].team = T
             /\ DeactivateTeam(T)) =>
                /\ resp'.err = CodeNotFound
                /\ <<users', prs', edges'>> = <<users, prs, edges>>
       /\ \A p \in PRIds :
            (/\ resp'.op = "MergePR" /\ resp'.pr = p
             /\ ~prs[p].exists
             /\ MergePR(p)) =>
                /\ resp'.err = CodeNotFound
                /\ <<users', prs', edges'>> = <<users, prs, edges>>
       /\ \A p \in PRIds, old \in Users :
            (/\ resp'.op = "ReassignReviewer" /\ resp'.pr = p
             /\ ~prs[p].exists
             /\ ReassignReviewer(p, old)) =>
                /\ resp'.err = CodeNotFound
                /\ <<users', prs', edges'>> = <<users, prs, edges>>]_vars

\* A DeactivateTeam refused with NOT_FOUND while another team has active
\* members who review an OPEN PR.
C21_Witness ==
    /\ resp.op = "DeactivateTeam" /\ resp.err = CodeNotFound
    /\ \E e \in edges : users[e[2]].active /\ prs[e[1]].status = PRStatusOpen

\* C22: a successful DeactivateTeam(T) returns the number of members of T
\* that were active before the call, the number of edges it deleted, and the
\* IDs of all the members of T in ascending order; the same call made next
\* returns 0 and 0 and changes nothing.
C22_DeactivationCounts ==
    [][\A T \in TeamNames :
        (/\ resp'.op = "DeactivateTeam" /\ resp'.err = OK
         /\ DeactivateTeam(T)) =>
            LET members == {u \in Users : users[u].exists /\ users[u].team = T}
                repeated == /\ resp.op = "DeactivateTeam" /\ resp.err = OK
                            /\ Range(resp.userIDs) = members
            IN  /\ resp'.deactivated =
                      Cardinality({u \in members : users[u].active})
                /\ resp'.removed = Cardinality(edges \ edges')
                /\ Range(resp'.userIDs) = members
                /\ IsAscending(resp'.userIDs)
                /\ repeated =>
                      /\ resp'.deactivated = 0 /\ resp'.removed = 0
                      /\ resp'.userIDs = resp.userIDs
                      /\ <<users', prs', edges'>> = <<users, prs, edges>>]_vars

\* A DeactivateTeam that deleted an edge and deactivated a member of a team
\* that also had a member who was inactive already.
C22_Witness ==
    /\ resp.op = "DeactivateTeam" /\ resp.err = OK
    /\ resp.removed >= 1 /\ resp.deactivated >= 1
    /\ Len(resp.userIDs) > resp.deactivated

C24_SwapNotObservable ==
    [][\A w \in Workers :
        (/\ txs[w].pc = "run" /\ txs[w].op = "ReassignReviewer"
         /\ txs'[w] # txs[w]) =>
            LET p == txs[w].pr
                old == txs[w].arg
                new == txs[w].res.replacedBy
            IN  /\ edges' # edges => Ends(w)
                /\ \/ edges' = edges
                   \/ /\ <<p, old>> \in edges /\ <<p, new>> \notin edges
                      /\ edges' = (edges \ {<<p, old>>}) \cup {<<p, new>>}]_vars

\* A ReassignReviewer in flight that has executed its DELETE and not yet its
\* INSERT, while the old edge is still there in the committed tables.
C24_Witness ==
    \E w \in Workers :
        /\ txs[w].pc = "run" /\ txs[w].op = "ReassignReviewer"
        /\ txs[w].done = 1 /\ Len(txs[w].todo) = 1
        /\ <<txs[w].pr, txs[w].arg>> \in edges
        /\ <<txs[w].pr, txs[w].res.replacedBy>> \notin edges

\* C25: a PR row that is there stays there, with the title, the author and
\* the created_at it was created with, whatever the call.
C25_CreatedFieldsFrozen ==
    [][\A p \in PRIds :
        prs[p].exists =>
            /\ prs'[p].exists
            /\ prs'[p].title = prs[p].title
            /\ prs'[p].author = prs[p].author
            /\ prs'[p].createdAt = prs[p].createdAt]_vars

\* A MergePR that wrote the status and merged_at of a PR created by an
\* earlier call.
C25_Witness ==
    /\ resp.op = "MergePR" /\ resp.err = OK /\ resp.writes = 1
    /\ prs[resp.pr].status = PRStatusMerged
    /\ prs[resp.pr].mergedAt # NullTime
    /\ prs[resp.pr].createdAt # NullTime
    /\ prs[resp.pr].createdAt < calls - 1

\* C26: a user row that is there stays there with its team name, and its
\* is_active changes only in a SetIsActive or a DeactivateTeam.
C26_UserRowsFrozen ==
    [][\A u \in Users :
        users[u].exists =>
            /\ users'[u].exists
            /\ users'[u].team = users[u].team
            /\ users'[u].active # users[u].active =>
                  resp'.op \in {"SetIsActive", "DeactivateTeam"}]_vars

\* C27: for any interleaving of AddTeam calls, an AddTeam succeeds only if no
\* user carries the team name in the committed tables when it writes, so of
\* the calls with one team name at most one succeeds.
C27_OneAddTeamSucceeds ==
    [][\A w \in Workers :
        (/\ txs[w].pc = "add" /\ txs'[w].pc = "idle"
         /\ resp'.op = "AddTeam" /\ resp'.err = OK) =>
            ~IsExists(txs[w].res[1])]_vars

\* C28: SetIsActive(u, b) on a user that is not there fails with NOT_FOUND and
\* changes nothing; on a user that is there it sets the is_active of u to b
\* and changes no other row and no edge, and returns u with its team name
\* and b; made again right after, it leaves the tables as they are and
\* returns the same response.
C28_SetIsActive ==
    [][\A u \in Users, b \in BOOLEAN :
        (resp'.op = "SetIsActive" /\ SetIsActive(u, b)) =>
            /\ <<prs', edges'>> = <<prs, edges>>
            /\ ~users[u].exists =>
                  /\ resp'.err = CodeNotFound
                  /\ users' = users
            /\ users[u].exists =>
                  /\ resp'.err = OK
                  /\ users' = [users EXCEPT ![u].active = b]
                  /\ resp'.user =
                        [id |-> u, team |-> users[u].team, active |-> b]
            /\ (/\ resp.op = "SetIsActive" /\ resp.err = OK
                /\ resp.user.id = u /\ resp.user.active = b) =>
                  /\ users' = users
                  /\ resp' = resp]_vars

\* A SetIsActive that deactivated a user who reviews an OPEN PR, the edge
\* still there.
C28_Witness ==
    /\ resp.op = "SetIsActive" /\ resp.err = OK /\ ~resp.user.active
    /\ \E e \in edges : /\ e[2] = resp.user.id
                         /\ prs[e[1]].status = PRStatusOpen

\* C29: a CreatePR, MergePR, ReassignReviewer or DeactivateTeam that ends in a
\* storage failure (a conflict, a failed statement, a failed commit) returns
\* the generic error, is not begun again, changes nothing in the step that
\* ends it, and leaves every row that one of its statements wrote as the row
\* was when the call began.
C29_NoRetryNoEffect ==
    [][\A w \in Workers :
        (/\ Ends(w) /\ resp'.err \notin DomainErrors \cup {OK, Panic}
         /\ txs[w].op \in {"CreatePR", "MergePR", "ReassignReviewer",
                            "DeactivateTeam"}) =>
            /\ resp'.err = InternalError
            /\ txs'[w] = NoTx /\ calls' = calls
            /\ <<users', prs', edges'>> = <<users, prs, edges>>
            /\ \A k \in txs[w].wrote :
                  RowOf([users |-> users', prs |-> prs', edges |-> edges'], k)
                      = RowOf(txs[w].snap, k)]_vars

\* C30: every transaction in flight ends; and when it ends because its
\* context is done, the call returns the error, the transaction is closed,
\* and every row that a statement of the call wrote is as it was when the
\* call began.
C30_FinishesClean ==
    /\ \A w \in Workers : [](txs[w].pc = "run" => <>(txs[w].pc = "idle"))
    /\ [][\A w \in Workers :
            (Ends(w) /\ Fault(w, InternalError)) =>
                /\ resp'.err = InternalError
                /\ txs'[w] = NoTx
                /\ \A k \in txs[w].wrote :
                      RowOf([users |-> users', prs |-> prs',
                             edges |-> edges'], k) = RowOf(txs[w].snap, k)]_vars

\* C31: for any interleaving of MergePR with ReassignReviewer or
\* DeactivateTeam, once the committed status of a PR is MERGED the committed
\* reviewer edges of that PR never change again.
C31_MergedEdgesFrozen ==
    [][\A p \in PRIds :
        (prs[p].exists /\ prs[p].status = PRStatusMerged) =>
            ReviewersOf(edges', p) = ReviewersOf(edges, p)]_vars

\* C32: of two CreatePR calls in flight with one PR id at most one commits:
\* a CreatePR commits only on an id with no committed row, the row and the
\* edges of the PR are then those of the committing call, and a CreatePR that
\* ends in an error changes nothing and leaves the rows it wrote as they were
\* when it began.
C32_OneCreateCommits ==
    [][\A w \in Workers :
        (Ends(w) /\ txs[w].op = "CreatePR") =>
            LET p == txs[w].pr
                after == [users |-> users', prs |-> prs', edges |-> edges']
            IN  IF resp'.err = OK
                THEN /\ ~prs[p].exists
                     /\ ReviewersOf(edges, p) = {}
                     /\ prs'[p] = txs[w].res.prs[p]
                     /\ prs'[p].author = txs[w].arg
                     /\ ReviewersOf(edges', p) = Range(resp'.reviewers)
                     /\ \A q \in PRIds \ {p} :
                           /\ prs'[q] = prs[q]
                           /\ ReviewersOf(edges', q) = ReviewersOf(edges, q)
                ELSE /\ <<users', prs', edges'>> = <<users, prs, edges>>
                     /\ \A k \in txs[w].wrote :
                           RowOf(after, k) = RowOf(txs[w].snap, k)]_vars

\* Two CreatePR calls with one id and different authors are in flight, both
\* having found the id free; one has inserted the PR row and an edge, the
\* INSERT of the other waits for that row.
C32_Witness ==
    \E w \in Workers, v \in Workers :
        /\ w # v
        /\ txs[w].pc = "run" /\ txs[v].pc = "run"
        /\ txs[w].op = "CreatePR" /\ txs[v].op = "CreatePR"
        /\ txs[w].pr = txs[v].pr /\ txs[w].arg # txs[v].arg
        /\ txs[w].res.err = OK /\ txs[v].res.err = OK
        /\ txs[v].done >= 2
        /\ txs[w].done = 0
        /\ Head(txs[w].todo).keys \cap txs[v].locks # {}

\* C33: ReassignReviewer(p, old) reports the first failure that holds, in
\* this order: no PR p, NOT_FOUND; p MERGED, PR_MERGED; no edge (p, old),
\* NOT_ASSIGNED; no user old, NOT_FOUND; no active user of old's team other
\* than the author and the reviewers of p, NO_CANDIDATE; and it succeeds when
\* none holds.
C33_FailureOrder ==
    [][\A p \in PRIds, old \in Users :
        (/\ resp'.op = "ReassignReviewer" /\ resp'.pr = p
         /\ ReassignReviewer(p, old)) =>
            LET pool == ActiveMembers(users[old].team) \
                            ({prs[p].author} \cup ReviewersOf(edges, p))
            IN  resp'.err =
                    IF ~prs[p].exists THEN CodeNotFound
                    ELSE IF prs[p].status = PRStatusMerged THEN CodePRMerged
                    ELSE IF <<p, old>> \notin edges THEN CodeNotAssigned
                    ELSE IF ~users[old].exists THEN CodeNotFound
                    ELSE IF pool = {} THEN CodeNoCandidate
                    ELSE OK]_vars

\* A ReassignReviewer refused with NOT_ASSIGNED on an OPEN PR with a reviewer
\* while every active user is the author or a reviewer of the PR, so that the
\* pool of any old reviewer is empty.
C33_Witness ==
    /\ resp.op = "ReassignReviewer" /\ resp.err = CodeNotAssigned
    /\ prs[resp.pr].status = PRStatusOpen
    /\ ReviewersOf(edges, resp.pr) # {}
    /\ \A u \in Users :
          (users[u].exists /\ users[u].active) =>
              u \in {prs[resp.pr].author} \cup ReviewersOf(edges, resp.pr)

\* C34: in every committed state, whatever the calls and their interleaving,
\* a PR has at most 2 reviewer edges, only a PR that is there has edges, and
\* no PR has an edge to its own author.  (That no pair occurs twice is the
\* primary key of pr_reviewer, by which the table is a set of pairs.)
C34_EdgeInvariant ==
    \A p \in PRIds :
        /\ Cardinality(ReviewersOf(edges, p)) <= 2
        /\ ReviewersOf(edges, p) # {} => prs[p].exists
        /\ prs[p].author \notin ReviewersOf(edges, p)

\* A ReassignReviewer that has executed its two statements and is about to
\* commit on a PR whose edges another call has changed since its snapshot.
C34_Witness ==
    \E w \in Workers :
        /\ txs[w].pc = "run" /\ txs[w].op = "ReassignReviewer"
        /\ txs[w].res.err = OK /\ txs[w].todo = <<>> /\ txs[w].done = 2
        /\ ReviewersOf(edges, txs[w].pr) #
               ReviewersOf(txs[w].snap.edges, txs[w].pr)
        /\ Cardinality(ReviewersOf(edges, txs[w].pr)) = 2

\* C35: in every reachable state a PR row has the status MERGED exactly when
\* its merged_at is not null, so a MergePR that finds the PR merged finds a
\* merged_at to format.
C35_MergedIffMergedAt ==
    \A p \in PRIds :
        prs[p].exists =>
            (prs[p].status = PRStatusMerged <=> prs[p].mergedAt # NullTime)

\* A MergePR that found the PR merged and returned the stored merged_at.
C35_Witness ==
    /\ resp.op = "MergePR" /\ resp.err = OK /\ resp.writes = 0
    /\ resp.status = PRStatusMerged
    /\ prs[resp.pr].mergedAt # NullTime
    /\ resp.mergedAt = FormatRFC3339(prs[resp.pr].mergedAt)

\* C36: MergePR(p) changes at most the status and the merged_at of the row
\* of p: every edge, every user and every other PR row is as before; and the
\* reviewers it returns, when it merges and when it finds the PR merged, are
\* the reviewer edges of p in ascending order of ID.
C36_MergeFrame ==
    [][\A p \in PRIds :
        (resp'.op = "MergePR" /\ resp'.pr = p /\ MergePR(p)) =>
            /\ edges' = edges
            /\ users' = users
            /\ \A q \in PRIds \ {p} : prs'[q] = prs[q]
            /\ prs'[p] = [prs[p] EXCEPT !.status = prs'[p].status,
                                        !.mergedAt = prs'[p].mergedAt]
            /\ resp'.err = OK =>
                  /\ IsAscending(resp'.reviewers)
                  /\ Range(resp'.reviewers) = ReviewersOf(edges, p)
                  /\ Len(resp'.reviewers) = Cardinality(ReviewersOf(edges, p))]_vars

\* A MergePR that merged a PR with 2 reviewers while another PR has a
\* reviewer who is not one of them.
C36_Witness ==
    /\ resp.op = "MergePR" /\ resp.err = OK /\ resp.writes = 1
    /\ Len(resp.reviewers) = 2
    /\ \E q \in PRIds \ {resp.pr} :
          ReviewersOf(edges, q) \ ReviewersOf(edges, resp.pr) # {}

\* C37: a MergePR needs one connection at a time, so in no reachable state
\* is every connection of the pool held by an open MergePR transaction whose
\* status update waits for a further connection.
C37_NoPoolDeadlock ==
    ~ /\ InUse = PoolSize
      /\ \A w \in Workers :
            txs[w].pc = "run" =>
                /\ txs[w].op = "MergePR"
                /\ txs[w].todo # <<>>
                /\ Head(txs[w].todo).pool

\* C38: a DeactivateTeam(T) that commits removes edges only of users who are
\* then inactive members of T, also when the members of T changed between its
\* read of the member IDs and its transaction; and no member of T has then an
\* edge on an OPEN PR.
C38_DeactivationMembers ==
    [][\A w \in Workers :
        (Ends(w) /\ txs[w].op = "DeactivateTeam" /\ resp'.err = OK) =>
            LET T == TeamNamed(txs[w].arg)
            IN  /\ \A e \in edges \ edges' :
                      /\ users'[e[2]].team = T
                      /\ ~users'[e[2]].active
                /\ \A u \in Users :
                      (users'[u].exists /\ users'[u].team = T) =>
                          \A p \in PRIds :
                              (prs'[p].exists /\ prs'[p].status = PRStatusOpen)
                                  => <<p, u>> \notin edges']_vars

====
